---- MODULE Spec2Model ----
(***************************************************************************)
(* Model of the two sliding-window methods of yata:                        *)
(*   SMM    (src/methods/smm.rs)      simple moving median                 *)
(*   LinReg (src/methods/lin_reg.rs)  linear-regression moving average     *)
(* A behaviour follows one tracker instance from construction through its  *)
(* next() calls; instances share no state, so one instance at a time is    *)
(* every behaviour there is.                                               *)
(*                                                                         *)
(* ValueType (f64) is modelled as a pair <<n, d>>:                         *)
(*   d > 0   the finite value n/d, in lowest terms                         *)
(*   <<1,0>> +infinity, <<-1,0>> -infinity, <<0,0>> NaN                    *)
(* Arithmetic is exact inside [-FMax, FMax] and overflows to an infinity   *)
(* outside of it, as f64 does beyond f64::MAX; rounding is not modelled.   *)
(***************************************************************************)
EXTENDS Integers, Sequences, FiniteSets, TLC

\* ---------------------------------------------------------------- bounds
\* Longest window length tried (PeriodType is an unsigned integer).
MaxLen == 3
\* Most next() calls made on one tracker.
MaxPushes == 4
\* Stand-in for f64::MAX: the largest finite ValueType.
FMax == 1000000
\* Longest sorted slice handed to the index functions on their own.
MaxSlice == 5
\* Longest window length for which the constants of LinReg::new are computed
\* (the largest value of a one-byte PeriodType).
MaxPeriod == 255

\* ------------------------------------------------------------- ValueType
Abs(x) == IF x < 0 THEN -x ELSE x

RECURSIVE GCD(_, _)
GCD(x, y) == IF y = 0 THEN x ELSE GCD(y, x % y)

NaN == <<0, 0>>
Inf == <<1, 0>>
NegInf == <<-1, 0>>

is_nan(v) == v[2] = 0 /\ v[1] = 0
is_finite(v) == v[2] # 0
is_zero(v) == v[2] # 0 /\ v[1] = 0
Sign(v) == IF v[1] < 0 THEN -1 ELSE 1

\* The f64 nearest to n/d (d # 0): n/d itself in lowest terms, or an infinity
\* when it lies beyond the largest finite value.
Round(n, d) ==
    LET s == IF d < 0 THEN -1 ELSE 1
        g == GCD(Abs(n), Abs(d))
        nn == (s * n) \div g
        dd == (s * d) \div g
        \* p / dd > FMax for p >= 0, without forming FMax * dd
        beyond(p) == p \div dd > FMax \/ (p \div dd = FMax /\ p % dd > 0)
    IN  IF nn >= 0 /\ beyond(nn) THEN Inf
        ELSE IF nn < 0 /\ beyond(-nn) THEN NegInf
        ELSE <<nn, dd>>

FromInt(n) == Round(n, 1)

\* a == b on f64: NaN equals nothing.
FEq(a, b) == ~is_nan(a) /\ ~is_nan(b) /\ a = b

\* a > b on f64: false when either side is NaN.
FGt(a, b) ==
    /\ ~is_nan(a)
    /\ ~is_nan(b)
    /\ IF a[2] = 0 /\ b[2] = 0 THEN a[1] > b[1]
       ELSE a[1] * b[2] > b[1] * a[2]

FNeg(a) == <<-a[1], a[2]>>

\* a + b on f64.
FAdd(a, b) ==
    IF is_nan(a) \/ is_nan(b) THEN NaN
    ELSE IF ~is_finite(a) /\ ~is_finite(b) THEN (IF a = b THEN a ELSE NaN)
    ELSE IF ~is_finite(a) THEN a
    ELSE IF ~is_finite(b) THEN b
    ELSE Round(a[1] * b[2] + b[1] * a[2], a[2] * b[2])

FSub(a, b) == FAdd(a, FNeg(b))

\* a * b on f64.
FMul(a, b) ==
    IF is_nan(a) \/ is_nan(b) THEN NaN
    ELSE IF ~is_finite(a) \/ ~is_finite(b)
         THEN (IF is_zero(a) \/ is_zero(b) THEN NaN
               ELSE IF Sign(a) * Sign(b) > 0 THEN Inf ELSE NegInf)
    ELSE Round(a[1] * b[1], a[2] * b[2])

\* f64::recip: 1 / a.
recip(a) ==
    IF is_nan(a) THEN NaN
    ELSE IF ~is_finite(a) THEN FromInt(0)
    ELSE IF is_zero(a) THEN Inf
    ELSE Round(a[2], a[1])

\* f64::mul_add: a * b + c with one rounding.
mul_add(a, b, c) ==
    IF is_finite(a) /\ is_finite(b) /\ is_finite(c)
    THEN Round(a[1] * b[1] * c[2] + c[1] * a[2] * b[2], a[2] * b[2] * c[2])
    ELSE FAdd(FMul(a, b), c)

Half == Round(1, 2)

\* ---------------------------------------------------------------- Window
\* core::Window: a ring buffer of `length` slots; index is the 0-based
\* position of the oldest slot.
Window_new(length, value) ==
    [buf |-> [i \in 1..length |-> value], index |-> 0]

\* What Window::push returns: the value in the oldest slot.
Window_oldest(w) == w.buf[w.index + 1]

\* The window after Window::push(value).
Window_push(w, value) ==
    [buf |-> [w.buf EXCEPT ![w.index + 1] = value],
     index |-> (w.index + 1) % Len(w.buf)]

\* ------------------------------------------------------------------- SMM
\* Result of an index computation that panics (index out of bounds).
OOB == -1

\* find_index searching as if the slice were in descending order.
RECURSIVE find_index_descending(_, _, _)
find_index_descending(value, slice, padding) ==
    IF Len(slice) = 1 THEN padding
    ELSE IF Len(slice) = 0 THEN OOB
    ELSE LET half == Len(slice) \div 2 IN
         IF FEq(value, slice[half + 1]) THEN padding + half
         ELSE IF FGt(slice[half + 1], value)
              THEN find_index_descending(value, SubSeq(slice, half + 2, Len(slice)), padding + half + 1)
              ELSE find_index_descending(value, SubSeq(slice, 1, half), padding)

\* find_index with the padding of the upper half one short.
RECURSIVE find_index_short(_, _, _)
find_index_short(value, slice, padding) ==
    IF Len(slice) = 1 THEN padding
    ELSE IF Len(slice) = 0 THEN OOB
    ELSE LET half == Len(slice) \div 2 IN
         IF FEq(value, slice[half + 1]) THEN padding + half
         ELSE IF FGt(value, slice[half + 1])
              THEN find_index_short(value, SubSeq(slice, half + 2, Len(slice)), padding + half)
              ELSE find_index_short(value, SubSeq(slice, 1, half), padding)

RECURSIVE find_index(_, _, _)
find_index(value, slice, padding) ==
    IF Len(slice) = 1 THEN padding
    ELSE IF Len(slice) = 0 THEN OOB
    ELSE LET half == Len(slice) \div 2 IN
         IF FEq(value, slice[half + 1]) THEN padding + half
         ELSE IF FGt(value, slice[half + 1])
              THEN find_index(value, SubSeq(slice, half + 2, Len(slice)), padding + half + 1)
              ELSE find_index(value, SubSeq(slice, 1, half), padding)

\* find_insert_index with the padding of the upper half one short.
RECURSIVE find_insert_index_short(_, _, _)
find_insert_index_short(value, slice, padding) ==
    IF Len(slice) = 0 THEN padding
    ELSE LET half == Len(slice) \div 2 IN
         IF FEq(value, slice[half + 1]) THEN padding + half
         ELSE IF FGt(value, slice[half + 1])
              THEN find_insert_index_short(value, SubSeq(slice, half + 2, Len(slice)), padding + half)
              ELSE find_insert_index_short(value, SubSeq(slice, 1, half), padding)

\* find_insert_index answering with the start of the sub-slice on equality.
RECURSIVE find_insert_index_at_start(_, _, _)
find_insert_index_at_start(value, slice, padding) ==
    IF Len(slice) = 0 THEN padding
    ELSE LET half == Len(slice) \div 2 IN
         IF FEq(value, slice[half + 1]) THEN padding
         ELSE IF FGt(value, slice[half + 1])
              THEN find_insert_index_at_start(value, SubSeq(slice, half + 2, Len(slice)), padding + half + 1)
              ELSE find_insert_index_at_start(value, SubSeq(slice, 1, half), padding)

RECURSIVE find_insert_index(_, _, _)
find_insert_index(value, slice, padding) ==
    IF Len(slice) = 0 THEN padding
    ELSE LET half == Len(slice) \div 2 IN
         IF FEq(value, slice[half + 1]) THEN padding + half
         ELSE IF FGt(value, slice[half + 1])
              THEN find_insert_index(value, SubSeq(slice, half + 2, Len(slice)), padding + half + 1)
              ELSE find_insert_index(value, SubSeq(slice, 1, half), padding)

\* slice::copy_within(start..end, dest) on 0-based positions, end exclusive;
\* it panics unless the source and destination ranges lie inside the slice.
copy_within_ok(s, start, end, dest) ==
    start <= end /\ end <= Len(s) /\ dest >= 0 /\ dest + (end - start) <= Len(s)

copy_within(s, start, end, dest) ==
    [i \in 1..Len(s) |->
        IF i - 1 >= dest /\ i - 1 < dest + (end - start)
        THEN s[(i - 1 - dest) + start + 1]
        ELSE s[i]]

NoWindow == [buf |-> <<>>, index |-> 0]
NoSMM == [half |-> 0, half_m1 |-> 0, window |-> NoWindow, slice |-> <<>>]

\* SMM::new checking the length before the value.
SMM_new_length_first(length, value) ==
    IF length = 0 THEN [err |-> "WrongMethodParameters", smm |-> NoSMM]
    ELSE IF ~is_finite(value) THEN [err |-> "InvalidCandles", smm |-> NoSMM]
    ELSE LET half == length \div 2
             is_even == IF length % 2 = 0 THEN 1 ELSE 0
         IN  [err |-> "",
              smm |-> [half |-> half,
                       half_m1 |-> IF half - is_even < 0 THEN 0 ELSE half - is_even,
                       window |-> Window_new(length, value),
                       slice |-> [i \in 1..length |-> value]]]

\* SMM::new taking half - 1 as the lower half-index whatever the parity.
SMM_new_no_parity(length, value) ==
    IF ~is_finite(value) THEN [err |-> "InvalidCandles", smm |-> NoSMM]
    ELSE IF length = 0 THEN [err |-> "WrongMethodParameters", smm |-> NoSMM]
    ELSE LET half == length \div 2
         IN  [err |-> "",
              smm |-> [half |-> half,
                       half_m1 |-> IF half - 1 < 0 THEN 0 ELSE half - 1,
                       window |-> Window_new(length, value),
                       slice |-> [i \in 1..length |-> value]]]

\* SMM::new: the Error returned ("" for Ok) and the tracker built.
SMM_new(length, value) ==
    IF ~is_finite(value) THEN [err |-> "InvalidCandles", smm |-> NoSMM]
    ELSE IF length = 0 THEN [err |-> "WrongMethodParameters", smm |-> NoSMM]
    ELSE LET half == length \div 2
             is_even == IF length % 2 = 0 THEN 1 ELSE 0
         IN  [err |-> "",
              smm |-> [half |-> half,
                       half_m1 |-> IF half - is_even < 0 THEN 0 ELSE half - is_even,
                       window |-> Window_new(length, value),
                       slice |-> [i \in 1..length |-> value]]]

\* The shift to the left moving the whole head of the slice, from its start.
SMM_shift_from_start(slice, old_index, found, value) ==
    LET index == IF old_index < found THEN found - 1 ELSE found
        ok ==
            /\ index >= 0
            /\ index < Len(slice)
            /\ IF index > old_index
               THEN copy_within_ok(slice, 1, index + 1, 0)
               ELSE IF index < old_index
                    THEN copy_within_ok(slice, index, old_index, index + 1)
                    ELSE TRUE
        moved ==
            IF index > old_index THEN copy_within(slice, 1, index + 1, 0)
            ELSE IF index < old_index THEN copy_within(slice, index, old_index, index + 1)
            ELSE slice
    IN  [ok |-> ok,
         index |-> index,
         slice |-> IF ok THEN [moved EXCEPT ![index + 1] = value] ELSE slice]

\* The shift without the offset of the insert index by one.
SMM_shift_no_offset(slice, old_index, found, value) ==
    LET index == found
        ok ==
            /\ index >= 0
            /\ index < Len(slice)
            /\ IF index > old_index
               THEN copy_within_ok(slice, old_index + 1, index + 1, old_index)
               ELSE IF index < old_index
                    THEN copy_within_ok(slice, index, old_index, index + 1)
                    ELSE TRUE
        moved ==
            IF index > old_index THEN copy_within(slice, old_index + 1, index + 1, old_index)
            ELSE IF index < old_index THEN copy_within(slice, index, old_index, index + 1)
            ELSE slice
    IN  [ok |-> ok,
         index |-> index,
         slice |-> IF ok THEN [moved EXCEPT ![index + 1] = value] ELSE slice]

\* The moving of values inside the sorted slice and the insertion of value
\* (smm.rs lines 128..139), from the two indices found. ok is FALSE when an
\* index operation panics.
SMM_shift(slice, old_index, found, value) ==
    LET index == found - (IF old_index < found THEN 1 ELSE 0)
        ok ==
            /\ index >= 0
            /\ index < Len(slice)
            /\ IF index > old_index
               THEN copy_within_ok(slice, old_index + 1, index + 1, old_index)
               ELSE IF index < old_index
                    THEN copy_within_ok(slice, index, old_index, index + 1)
                    ELSE TRUE
        moved ==
            IF index > old_index THEN copy_within(slice, old_index + 1, index + 1, old_index)
            ELSE IF index < old_index THEN copy_within(slice, index, old_index, index + 1)
            ELSE slice
    IN  [ok |-> ok,
         index |-> index,
         slice |-> IF ok THEN [moved EXCEPT ![index + 1] = value] ELSE slice]

\* The value SMM::next returns, read from the half-indices.
SMM_median(s) ==
    FMul(FAdd(s.slice[s.half + 1], s.slice[s.half_m1 + 1]), Half)

\* SMM::next with the assertion made after the window push.
SMM_next_late_assert(s, value) ==
    LET old_value == Window_oldest(s.window)
        pushed == [s EXCEPT !.window = Window_push(s.window, value)]
        old_index == find_index(old_value, s.slice, 0)
        found == find_insert_index(value, s.slice, 0)
        sh == SMM_shift(s.slice, old_index, found, value)
        after == [pushed EXCEPT !.slice = sh.slice]
    IN  IF ~is_finite(value) \/ old_index = OOB \/ ~sh.ok
        THEN [panic |-> TRUE, smm |-> pushed, old_value |-> old_value, out |-> NaN]
        ELSE [panic |-> FALSE, smm |-> after, old_value |-> old_value,
              out |-> SMM_median(after)]

\* SMM::next(value) on tracker s: whether it panics, the tracker afterwards,
\* the value the window evicted and the value returned.
SMM_next(s, value) ==
    IF ~is_finite(value)
    THEN [panic |-> TRUE, smm |-> s, old_value |-> NaN, out |-> NaN]
    ELSE LET old_value == Window_oldest(s.window)
             pushed == [s EXCEPT !.window = Window_push(s.window, value)]
             old_index == find_index(old_value, s.slice, 0)
             found == find_insert_index(value, s.slice, 0)
             sh == SMM_shift(s.slice, old_index, found, value)
             after == [pushed EXCEPT !.slice = sh.slice]
         IN  IF old_index = OOB \/ ~sh.ok
             THEN [panic |-> TRUE, smm |-> pushed, old_value |-> old_value, out |-> NaN]
             ELSE [panic |-> FALSE, smm |-> after, old_value |-> old_value,
                   out |-> SMM_median(after)]

\* ---------------------------------------------------------------- LinReg
NoLinReg ==
    [s_xy |-> NaN, s_y |-> NaN, s_x |-> NaN, float_length |-> NaN,
     length_invert |-> NaN, divider |-> NaN, window |-> NoWindow]

\* LinReg::tan
tan(s) == FMul(mul_add(s.s_xy, s.float_length, FMul(s.s_x, s.s_y)), s.divider)

\* LinReg::b with the sign of length_invert lost.
b_unsigned(s) == FMul(mul_add(s.s_x, tan(s), s.s_y), recip(s.float_length))

\* LinReg::b
b(s) == FMul(mul_add(s.s_x, tan(s), s.s_y), s.length_invert)

\* The integer constants of LinReg::new (usize arithmetic): s_x, the sum of
\* x over 0..length-1 ...
LinReg_s_x(l64) ==
    LET n_1 == l64 - 1
    IN  (l64 * n_1) \div 2

\* ... s_x2 with the division by 3 made before the multiplication ...
LinReg_s_x2_early_division(l64) ==
    LET n_1 == l64 - 1
        s_x == LinReg_s_x(l64)
    IN  s_x * ((2 * n_1 + 1) \div 3)

\* ... s_x2, the sum of x * x ...
LinReg_s_x2(l64) ==
    LET n_1 == l64 - 1
        s_x == LinReg_s_x(l64)
    IN  (s_x * (2 * n_1 + 1)) \div 3

\* ... and the integer whose reciprocal is the divider.
LinReg_denominator(l64) ==
    LET s_x == LinReg_s_x(l64)
        s_x2 == LinReg_s_x2(l64)
    IN  l64 * s_x2 - s_x * s_x

\* LinReg::new keeping s_x positive.
LinReg_new_positive_s_x(length, value) ==
    IF length = 0 \/ length = 1 THEN [err |-> "WrongMethodParameters", linreg |-> NoLinReg]
    ELSE LET l64 == length
             float_length == FromInt(length)
             length_invert == FNeg(recip(float_length))
             s_x == LinReg_s_x(l64)
             divider == recip(FromInt(LinReg_denominator(l64)))
             fs_x == FromInt(s_x)
         IN  [err |-> "",
              linreg |-> [float_length |-> float_length,
                          length_invert |-> length_invert,
                          divider |-> divider,
                          s_x |-> fs_x,
                          s_y |-> FMul(FNeg(value), float_length),
                          s_xy |-> FMul(value, fs_x),
                          window |-> Window_new(length, value)]]

\* LinReg::new rejecting length 0 only.
LinReg_new_zero_only(length, value) ==
    IF length = 0 THEN [err |-> "WrongMethodParameters", linreg |-> NoLinReg]
    ELSE LET l64 == length
             float_length == FromInt(length)
             length_invert == FNeg(recip(float_length))
             s_x == LinReg_s_x(l64)
             divider == recip(FromInt(LinReg_denominator(l64)))
             fs_x == FNeg(FromInt(s_x))
         IN  [err |-> "",
              linreg |-> [float_length |-> float_length,
                          length_invert |-> length_invert,
                          divider |-> divider,
                          s_x |-> fs_x,
                          s_y |-> FMul(FNeg(value), float_length),
                          s_xy |-> FMul(value, fs_x),
                          window |-> Window_new(length, value)]]

\* LinReg::new
LinReg_new(length, value) ==
    IF length = 0 \/ length = 1 THEN [err |-> "WrongMethodParameters", linreg |-> NoLinReg]
    ELSE LET l64 == length
             float_length == FromInt(length)
             length_invert == FNeg(recip(float_length))
             s_x == LinReg_s_x(l64)
             divider == recip(FromInt(LinReg_denominator(l64)))
             fs_x == FNeg(FromInt(s_x))
         IN  [err |-> "",
              linreg |-> [float_length |-> float_length,
                          length_invert |-> length_invert,
                          divider |-> divider,
                          s_x |-> fs_x,
                          s_y |-> FMul(FNeg(value), float_length),
                          s_xy |-> FMul(value, fs_x),
                          window |-> Window_new(length, value)]]

\* LinReg::next skipping the window push of a sample equal to the oldest one.
LinReg_next_skip_equal(s, value) ==
    LET past_value == Window_oldest(s.window)
        s1 == IF past_value = value THEN s
              ELSE [s EXCEPT !.window = Window_push(s.window, value)]
        s2 == [s1 EXCEPT !.s_xy = FAdd(s1.s_xy, mul_add(past_value, s1.float_length, s1.s_y))]
        s3 == [s2 EXCEPT !.s_y = FAdd(s2.s_y, FSub(past_value, value))]
    IN  [linreg |-> s3, old_value |-> past_value, out |-> b(s3)]

\* LinReg::next updating s_y before s_xy.
LinReg_next_s_y_first(s, value) ==
    LET past_value == Window_oldest(s.window)
        s1 == [s EXCEPT !.window = Window_push(s.window, value)]
        s2 == [s1 EXCEPT !.s_y = FAdd(s1.s_y, FSub(past_value, value))]
        s3 == [s2 EXCEPT !.s_xy = FAdd(s2.s_xy, mul_add(past_value, s2.float_length, s2.s_y))]
    IN  [linreg |-> s3, old_value |-> past_value, out |-> b(s3)]

\* LinReg::next adding the evicted value to s_xy once instead of length times.
LinReg_next_unscaled(s, value) ==
    LET past_value == Window_oldest(s.window)
        s1 == [s EXCEPT !.window = Window_push(s.window, value)]
        s2 == [s1 EXCEPT !.s_xy = FAdd(s1.s_xy, FAdd(past_value, s1.s_y))]
        s3 == [s2 EXCEPT !.s_y = FAdd(s2.s_y, FSub(past_value, value))]
    IN  [linreg |-> s3, old_value |-> past_value, out |-> b(s3)]

\* LinReg::next(value) on tracker s: the tracker afterwards, the value the
\* window evicted and the value returned.
LinReg_next(s, value) ==
    LET past_value == Window_oldest(s.window)
        s1 == [s EXCEPT !.window = Window_push(s.window, value)]
        s2 == [s1 EXCEPT !.s_xy = FAdd(s1.s_xy, mul_add(past_value, s1.float_length, s1.s_y))]
        s3 == [s2 EXCEPT !.s_y = FAdd(s2.s_y, FSub(past_value, value))]
    IN  [linreg |-> s3, old_value |-> past_value, out |-> b(s3)]

\* ----------------------------------------------------------------- state
VARIABLES
    method,     \* which tracker the caller holds: "none", "SMM" or "LinReg"
    smm,        \* the SMM instance
    linreg,     \* the LinReg instance
    call,       \* the last call: its operation and value, with the tracker
                \* and length of the last new()
    err,        \* the Error the last new() returned, "" for Ok
    output,     \* the value the last next() returned
    evicted,    \* the value the window push of the last next() returned
    panicked,   \* the last next() failed an assertion: the process is gone
    first,      \* the value the tracker was constructed with
    fed         \* the samples given to next() so far, oldest first

vars == <<method, smm, linreg, call, err, output, evicted, panicked, first, fed>>

\* Sample values: finite ones in range, the largest finite value, and the
\* three non-finite ones. Both constructors and SMM::next are called with
\* all of them; LinReg::next is fed the in-range ones, the samples for which
\* its arithmetic is exact.
SmallSamples == {FromInt(1), FromInt(2), FromInt(3), FromInt(100)}
FiniteSamples == SmallSamples \cup {FromInt(FMax)}
NonFinite == {NaN, Inf, NegInf}
AllValues == FiniteSamples \cup NonFinite
Lengths == 0..MaxLen

Init ==
    /\ method = "none"
    /\ smm = NoSMM
    /\ linreg = NoLinReg
    /\ call = [op |-> "none", method |-> "none", length |-> 0, value |-> NaN]
    /\ err = ""
    /\ output = NaN
    /\ evicted = NaN
    /\ panicked = FALSE
    /\ first = NaN
    /\ fed = <<>>

\* let r = SMM::new(length, value)
SMMNew(length, value) ==
    LET r == SMM_new(length, value) IN
    /\ method = "none"
    /\ call' = [op |-> "new", method |-> "SMM", length |-> length, value |-> value]
    /\ err' = r.err
    /\ smm' = r.smm
    /\ method' = IF r.err = "" THEN "SMM" ELSE "none"
    /\ first' = IF r.err = "" THEN value ELSE first
    /\ UNCHANGED <<linreg, output, evicted, panicked, fed>>

\* let r = LinReg::new(length, value)
LinRegNew(length, value) ==
    LET r == LinReg_new(length, value) IN
    /\ method = "none"
    /\ call' = [op |-> "new", method |-> "LinReg", length |-> length, value |-> value]
    /\ err' = r.err
    /\ linreg' = r.linreg
    /\ method' = IF r.err = "" THEN "LinReg" ELSE "none"
    /\ first' = IF r.err = "" THEN value ELSE first
    /\ UNCHANGED <<smm, output, evicted, panicked, fed>>

\* smm.next(value)
SMMNext(value) ==
    LET r == SMM_next(smm, value) IN
    /\ method = "SMM"
    /\ ~panicked
    /\ Len(fed) < MaxPushes
    /\ call' = [call EXCEPT !.op = "next", !.value = value]
    /\ smm' = r.smm
    /\ panicked' = r.panic
    /\ output' = IF r.panic THEN output ELSE r.out
    /\ evicted' = IF r.panic THEN evicted ELSE r.old_value
    /\ fed' = IF r.panic THEN fed ELSE Append(fed, value)
    /\ UNCHANGED <<method, linreg, err, first>>

\* linreg.next(value)
LinRegNext(value) ==
    LET r == LinReg_next(linreg, value) IN
    /\ method = "LinReg"
    /\ Len(fed) < MaxPushes
    /\ call' = [call EXCEPT !.op = "next", !.value = value]
    /\ linreg' = r.linreg
    /\ output' = r.out
    /\ evicted' = r.old_value
    /\ fed' = Append(fed, value)
    /\ UNCHANGED <<method, smm, err, panicked, first>>

Next ==
    \/ \E length \in Lengths, value \in AllValues : SMMNew(length, value)
    \/ \E length \in Lengths, value \in AllValues : LinRegNew(length, value)
    \/ \E value \in AllValues : SMMNext(value)
    \/ \E value \in SmallSamples : LinRegNext(value)

Spec == Init /\ [][Next]_vars

\* LinReg::new alone, over every length of the length type.
NextConstants ==
    \E length \in 0..MaxPeriod, value \in SmallSamples : LinRegNew(length, value)

SpecConstants == Init /\ [][NextConstants]_vars

\* The index functions and the shift of SMM::next called on their own, once
\* per behaviour, on every sorted slice of finite samples; call records the
\* arguments and the result.
SortedSlices ==
    UNION {{s \in [1..n -> FiniteSamples] : \A i \in 1..(n - 1) : ~FGt(s[i], s[i + 1])}
             : n \in 0..MaxSlice}

\* Inserting value at 0-based position k keeps slice sorted.
KeepsSorted(slice, value, k) ==
    /\ \A j \in 1..k : ~FGt(slice[j], value)
    /\ \A j \in (k + 1)..Len(slice) : ~FGt(value, slice[j])

\* find_index(value, slice, 0)
FindIndexCall(value, slice) ==
    /\ call.op = "none"
    /\ call' = [op |-> "find_index", value |-> value, slice |-> slice,
                result |-> find_index(value, slice, 0)]
    /\ UNCHANGED <<method, smm, linreg, err, output, evicted, panicked, first, fed>>

\* find_insert_index(value, slice, 0)
FindInsertIndexCall(value, slice) ==
    /\ call.op = "none"
    /\ call' = [op |-> "find_insert_index", value |-> value, slice |-> slice,
                result |-> find_insert_index(value, slice, 0)]
    /\ UNCHANGED <<method, smm, linreg, err, output, evicted, panicked, first, fed>>

\* Lines 128..139 of SMM::next, for an old_index holding the evicted value
\* and an insert index that keeps the slice sorted.
ShiftCall(slice, old_index, found, value) ==
    /\ call.op = "none"
    /\ KeepsSorted(slice, value, found)
    /\ call' = [op |-> "shift", value |-> value, slice |-> slice,
                old_index |-> old_index, found |-> found,
                result |-> SMM_shift(slice, old_index, found, value)]
    /\ UNCHANGED <<method, smm, linreg, err, output, evicted, panicked, first, fed>>

NextCalls ==
    \/ call.op = "none" /\ \E value \in FiniteSamples, slice \in SortedSlices :
          FindIndexCall(value, slice)
    \/ call.op = "none" /\ \E value \in FiniteSamples, slice \in SortedSlices :
          FindInsertIndexCall(value, slice)
    \/ call.op = "none" /\ \E value \in FiniteSamples, slice \in SortedSlices :
          \E old_index \in 0..(Len(slice) - 1), found \in 0..Len(slice) :
              ShiftCall(slice, old_index, found, value)

SpecCalls == Init /\ [][NextCalls]_vars

\* ------------------------------------------------------------ references
\* Exact rationals (no overflow), for the values the claims name.
QNorm(n, d) ==
    LET s == IF d < 0 THEN -1 ELSE 1
        g == GCD(Abs(n), Abs(d))
    IN  <<(s * n) \div g, (s * d) \div g>>
QAdd(x, y) == QNorm(x[1] * y[2] + y[1] * x[2], x[2] * y[2])
QSub(x, y) == QNorm(x[1] * y[2] - y[1] * x[2], x[2] * y[2])
QMul(x, y) == QNorm(x[1] * y[1], x[2] * y[2])
QDiv(x, y) == QNorm(x[1] * y[2], x[2] * y[1])
QLess(x, y) == x[1] * y[2] < y[1] * x[2]

\* The length the tracker was constructed with.
N == call.length

\* The last n samples fed, oldest first, positions that precede the first
\* sample filled with the construction value.
LastFed(n) ==
    LET all == [i \in 1..n |-> first] \o fed
    IN  SubSeq(all, Len(all) - n + 1, Len(all))

\* The window's slots in logical order, oldest first.
WindowOrdered(w) ==
    [i \in 1..Len(w.buf) |-> w.buf[((w.index + i - 1) % Len(w.buf)) + 1]]

\* How often v occurs in sequence s.
Count(v, s) == Cardinality({i \in 1..Len(s) : s[i] = v})
SameMultiset(s, t) ==
    /\ Len(s) = Len(t)
    /\ \A i \in 1..Len(s) : Count(s[i], s) = Count(s[i], t)

IsSorted(s) == \A i \in 1..(Len(s) - 1) : ~FGt(s[i], s[i + 1])

\* The median by sorting the samples directly, as test_smm0 computes it, in
\* exact arithmetic.
RefMedian(samples) ==
    LET n == Len(samples)
        sorted == SortSeq(samples, QLess)
    IN  IF n % 2 = 0
        THEN QDiv(QAdd(sorted[n \div 2 + 1], sorted[n \div 2]), <<2, 1>>)
        ELSE sorted[n \div 2 + 1]

SMMReturned == method = "SMM" /\ call.op = "next" /\ ~panicked

\* ---------------------------------------------------------------- claims

\* C1: every value SMM::next returns is the median of the last N samples fed
\* (padded with the construction value): the middle element of the sorted
\* samples for odd N, the average of the two middle elements for even N.
MedianCorrect == SMMReturned => output = RefMedian(LastFed(N))

\* C1, where the code agrees: when the sum of the two elements read at the
\* half-indices stays within the finite range, the returned value is the median.
MedianCorrectInRange ==
    (SMMReturned /\ is_finite(FAdd(smm.slice[smm.half + 1], smm.slice[smm.half_m1 + 1])))
        => output = RefMedian(LastFed(N))

\* C2: after SMM::new and after every SMM::next, slice has exactly N elements,
\* is non-decreasing and is a permutation of the values held by the window.
SortednessInvariant ==
    method = "SMM" =>
        /\ Len(smm.slice) = N
        /\ Len(smm.window.buf) = N
        /\ IsSorted(smm.slice)
        /\ SameMultiset(smm.slice, smm.window.buf)

\* C2 witness: three next() calls in, the window holds at least two distinct
\* values in an order that is not the sorted one.
SortednessWitness ==
    /\ SMMReturned
    /\ Len(fed) >= 3
    /\ N = 3
    /\ smm.window.buf # smm.slice
    /\ Cardinality({smm.slice[i] : i \in 1..Len(smm.slice)}) = 3

\* The sum of the values of sequence s, and of f[i] * s[i], exactly.
RECURSIVE QSum(_)
QSum(s) == IF Len(s) = 0 THEN <<0, 1>> ELSE QAdd(s[1], QSum(Tail(s)))

\* The least-squares intercept by direct recomputation over the samples
\* (oldest first), as test_lin_reg computes it: x = -j for the sample j
\* places before the newest, in exact arithmetic.
RefIntercept(samples) ==
    LET n == Len(samples)
        at(j) == samples[n - j]
        fn == <<n, 1>>
        sx == QSum([j \in 1..n |-> <<-(j - 1), 1>>])
        sx2 == QSum([j \in 1..n |-> <<(j - 1) * (j - 1), 1>>])
        sxy == QSum([j \in 1..n |-> QMul(<<-(j - 1), 1>>, at(j - 1))])
        sy == QSum([j \in 1..n |-> at(j - 1)])
        slope == QDiv(QSub(QMul(fn, sxy), QMul(sx, sy)),
                      QSub(QMul(fn, sx2), QMul(sx, sx)))
    IN  QDiv(QSub(sy, QMul(slope, sx)), fn)

LinRegReturned == method = "LinReg" /\ call.op = "next"

\* LinReg's arithmetic is exact: the construction value is a sample in range
\* (the samples fed always are).
ExactArithmetic == first \in SmallSamples

\* C3: in exact arithmetic, every value LinReg::next returns is the intercept
\* of the least-squares line fitted by direct recomputation over the last N
\* samples fed (padded with the construction value).
RegressionCorrect ==
    (LinRegReturned /\ ExactArithmetic) => output = RefIntercept(LastFed(N))

\* C3 witness: a window of three distinct samples, all fed by next(), whose
\* fitted value is none of them.
RegressionWitness ==
    /\ LinRegReturned
    /\ ExactArithmetic
    /\ N = 3
    /\ Len(fed) >= 3
    /\ Cardinality({linreg.window.buf[i] : i \in 1..3}) = 3
    /\ \A i \in 1..3 : output # linreg.window.buf[i]

\* The length is below the method's minimum: 2 for LinReg, 1 for SMM.
LengthBelowMinimum ==
    \/ call.method = "LinReg" /\ call.length <= 1
    \/ call.method = "SMM" /\ call.length = 0

\* C4 as stated: new() returns WrongMethodParameters exactly when the length
\* is below the method's minimum, for every first value.
ConstructionRejectsLength ==
    call.op = "new" => (err = "WrongMethodParameters" <=> LengthBelowMinimum)

\* C4 as amended: LinReg::new returns WrongMethodParameters exactly for the
\* lengths 0 and 1, for every first value; SMM::new returns it exactly for
\* length 0 with a finite first value, and InvalidCandles for length 0 with a
\* non-finite one.
ConstructionRejectsLengthFinite ==
    call.op = "new" =>
        /\ err = "WrongMethodParameters" <=>
              \/ call.method = "LinReg" /\ call.length <= 1
              \/ call.method = "SMM" /\ call.length = 0 /\ is_finite(call.value)
        /\ (call.method = "SMM" /\ call.length = 0 /\ ~is_finite(call.value))
              => err = "InvalidCandles"

\* C4 witness: LinReg::new(1, NaN) has returned WrongMethodParameters.
ConstructionRejectsWitness ==
    /\ call.op = "new"
    /\ call.method = "LinReg"
    /\ call.length = 1
    /\ call.value = NaN
    /\ err = "WrongMethodParameters"
    /\ method = "none"

\* C5: SMM::new returns InvalidCandles for every non-finite first value,
\* whatever the length, and for a finite one with length >= 1 it returns a
\* tracker whose window and slice are the first value repeated N times.
SMMNewInput ==
    (call.op = "new" /\ call.method = "SMM") =>
        IF ~is_finite(call.value)
        THEN err = "InvalidCandles" /\ method = "none"
        ELSE call.length >= 1 =>
                /\ err = ""
                /\ method = "SMM"
                /\ smm.window.buf = [i \in 1..call.length |-> call.value]
                /\ smm.slice = [i \in 1..call.length |-> call.value]

\* C5 witness: SMM::new(0, NaN) has returned InvalidCandles.
SMMNewInputWitness ==
    /\ call.op = "new"
    /\ call.method = "SMM"
    /\ call.length = 0
    /\ call.value = NaN
    /\ err = "InvalidCandles"

AllFedAreFirst == \A i \in 1..Len(fed) : fed[i] = first

\* C6: a tracker constructed with a finite v and fed v only returns v from
\* every next(v) (LinReg in exact arithmetic).
ConstantStable ==
    ( /\ method # "none"
      /\ call.op = "next"
      /\ ~panicked
      /\ is_finite(first)
      /\ method = "LinReg" => ExactArithmetic
      /\ AllFedAreFirst ) => output = first

\* C6, where the code agrees: for a construction value in range both trackers
\* return it.
ConstantStableInRange ==
    ( /\ method # "none"
      /\ call.op = "next"
      /\ ~panicked
      /\ first \in SmallSamples
      /\ AllFedAreFirst ) => output = first

\* C7: an SMM of length 1 returns from every next(value) exactly that value,
\* and its slice and window hold just that value.
LengthOneDegenerate ==
    (SMMReturned /\ N = 1) =>
        /\ output = call.value
        /\ smm.slice = <<call.value>>
        /\ smm.window.buf = <<call.value>>

\* C7, where the code agrees: slice and window hold just the last value, and
\* the value is returned when its double is finite.
LengthOneDegenerateInRange ==
    (SMMReturned /\ N = 1) =>
        /\ smm.slice = <<call.value>>
        /\ smm.window.buf = <<call.value>>
        /\ is_finite(FAdd(call.value, call.value)) => output = call.value

ExampleInputs == <<FromInt(1), FromInt(2), FromInt(3), FromInt(100)>>
ExampleOutputs == <<FromInt(1), FromInt(2), FromInt(2), FromInt(3)>>
ExampleOutputsOfCode == <<FromInt(1), FromInt(1), FromInt(2), FromInt(3)>>

\* The first calls of the scenario have been made: SMM::new(3, 1.0), then
\* next() with a prefix of 1.0, 2.0, 3.0, 100.0.
InExampleScenario ==
    /\ SMMReturned
    /\ N = 3
    /\ first = FromInt(1)
    /\ Len(fed) <= Len(ExampleInputs)
    /\ fed = SubSeq(ExampleInputs, 1, Len(fed))

\* C8 as stated: SMM::new(3, 1.0) followed by next(1.0), next(2.0),
\* next(3.0), next(100.0) returns 1.0, 2.0, 2.0, 3.0 in that order.
ExampleScenario == InExampleScenario => output = ExampleOutputs[Len(fed)]

\* C8 as amended: the calls return 1.0, 1.0, 2.0, 3.0 in that order (the
\* window at next(2.0) holds 1, 1, 2, whose median is 1).
ExampleScenarioOfCode == InExampleScenario => output = ExampleOutputsOfCode[Len(fed)]

\* C8 witness: the whole scenario has been played.
ExampleScenarioWitness ==
    /\ InExampleScenario
    /\ fed = ExampleInputs
    /\ output = FromInt(3)

\* Every value the SMM holds is finite.
FiniteContents ==
    method = "SMM" =>
        /\ \A i \in 1..Len(smm.window.buf) : is_finite(smm.window.buf[i])
        /\ \A i \in 1..Len(smm.slice) : is_finite(smm.slice[i])

\* One SMM::next call: a non-finite sample fails the assertion and leaves the
\* tracker as it was; a finite one returns, with the sample pushed into the
\* window and the slice again the sorted window.
NextAllOrNothing ==
    method = "SMM" =>
        IF ~is_finite(call'.value)
        THEN panicked' /\ smm' = smm /\ fed' = fed /\ output' = output
        ELSE /\ ~panicked'
             /\ fed' = Append(fed, call'.value)
             /\ smm'.window = Window_push(smm.window, call'.value)
             /\ IsSorted(smm'.slice)
             /\ SameMultiset(smm'.slice, smm'.window.buf)

\* C9: SMM::next with a non-finite sample fails before window or slice is
\* modified, window and slice hold finite values only in every reachable
\* state, and SMM::next with a finite sample updates both fully and returns.
NoPartialFailure == []FiniteContents /\ [][NextAllOrNothing]_vars

\* C9 witness: a next() call has failed its assertion on a tracker that had
\* taken samples before.
NoPartialFailureWitness ==
    /\ method = "SMM"
    /\ panicked
    /\ ~is_finite(call.value)
    /\ Len(fed) >= 2
    /\ smm.window.buf # smm.slice

\* The window of the tracker the caller holds.
TheWindow == IF method = "SMM" THEN smm.window ELSE linreg.window

\* The window holds the last N samples fed, and the last push returned the
\* sample pushed N pushes earlier (the construction value for the first N).
FifoContents ==
    method # "none" =>
        /\ Len(TheWindow.buf) = N
        /\ TheWindow.index \in 0..(N - 1)
        /\ WindowOrdered(TheWindow) = LastFed(N)
        /\ (call.op = "next" /\ ~panicked) =>
              evicted = IF Len(fed) <= N THEN first ELSE fed[Len(fed) - N]

\* One push: the slot that held the oldest sample takes the new sample and
\* every other slot is left alone.
FifoOneSlot ==
    (method # "none" /\ ~panicked') =>
        \A i \in 1..N :
            TheWindow'.buf[i] =
                IF i = TheWindow.index + 1 THEN call'.value ELSE TheWindow.buf[i]

\* C10: the window always holds exactly N samples, the k-th push returns the
\* construction value for k <= N and the sample of push k-N otherwise, the
\* window contents are the last N samples fed, and a push changes one slot.
WindowFifo == []FifoContents /\ [][FifoOneSlot]_vars

\* C10 witness: push N+1 has returned the sample of push 1, which is not the
\* construction value.
WindowFifoWitness ==
    /\ method = "LinReg"
    /\ call.op = "next"
    /\ N = 3
    /\ Len(fed) = N + 1
    /\ evicted = fed[1]
    /\ evicted # first

\* The sum of the window's values and the sum of rank * value over the window,
\* rank 0 at the newest sample and N - 1 at the oldest, recomputed exactly.
WindowSumY(w) == QSum(WindowOrdered(w))
WindowSumXY(w) ==
    LET ordered == WindowOrdered(w)
        n == Len(ordered)
    IN  QSum([i \in 1..n |-> QMul(<<n - i, 1>>, ordered[i])])

\* C11 as stated: after LinReg::new and after every LinReg::next the running
\* sum Sy is the sum of the window's values and Sxy the sum of x * y over the
\* window, x the reversed rank.
RunningSums ==
    (method = "LinReg" /\ ExactArithmetic) =>
        /\ linreg.s_y = WindowSumY(linreg.window)
        /\ linreg.s_xy = WindowSumXY(linreg.window)

\* C11 as amended: the running sums are kept negated: -s_y is the sum of the
\* window's values and -s_xy the sum of x * y over the window, after
\* LinReg::new and after every LinReg::next, the first N - 1 included.
RunningSumsNegated ==
    (method = "LinReg" /\ ExactArithmetic) =>
        /\ FNeg(linreg.s_y) = WindowSumY(linreg.window)
        /\ FNeg(linreg.s_xy) = WindowSumXY(linreg.window)

\* C11 witness: fewer than N - 1 calls in, the window holds a fed sample next
\* to construction values.
RunningSumsWitness ==
    /\ LinRegReturned
    /\ ExactArithmetic
    /\ N = 3
    /\ Len(fed) = 1
    /\ fed[1] # first

\* One LinReg::next call: s_xy grows by evicted * N + s_y, with s_y as it was
\* before the call, s_y grows by evicted - value, and the constants stay.
RegressionUpdate ==
    (method = "LinReg" /\ ExactArithmetic) =>
        /\ linreg'.s_xy =
              QAdd(linreg.s_xy, QAdd(QMul(evicted', <<N, 1>>), linreg.s_y))
        /\ linreg'.s_y = QAdd(linreg.s_y, QSub(evicted', call'.value))
        /\ linreg'.float_length = linreg.float_length
        /\ linreg'.length_invert = linreg.length_invert
        /\ linreg'.s_x = linreg.s_x
        /\ linreg'.divider = linreg.divider

\* C12: every LinReg::next(value) changes the running sums to
\* Sxy + evicted * N + Sy and Sy + evicted - value, the Sy in the first being
\* the one before the call, and leaves N, Sx and the divider unchanged.
RegressionUpdateStep == [][RegressionUpdate]_vars

\* C12 witness: a call whose evicted value differs from its sample, made when
\* s_y differed from what the call left.
RegressionUpdateWitness ==
    /\ LinRegReturned
    /\ ExactArithmetic
    /\ Len(fed) > N
    /\ evicted # call.value
    /\ evicted # first

\* C13: after LinReg::new and after every LinReg::next, s_y is minus the sum
\* of the last N samples, s_xy is minus the sum of rank * value over them
\* (rank 0 at the newest, N - 1 at the oldest), and s_x is -N(N-1)/2.
SignConvention ==
    (method = "LinReg" /\ ExactArithmetic) =>
        LET samples == LastFed(N)
        IN  /\ linreg.s_y = QSub(<<0, 1>>, QSum(samples))
            /\ linreg.s_xy =
                  QSub(<<0, 1>>, QSum([i \in 1..N |-> QMul(<<N - i, 1>>, samples[i])]))
            /\ linreg.s_x = <<-((N * (N - 1)) \div 2), 1>>

\* C13 witness: every sample of the window was fed by next() and the stored
\* sums are negative.
SignConventionWitness ==
    /\ LinRegReturned
    /\ ExactArithmetic
    /\ N = 3
    /\ Len(fed) = 4
    /\ linreg.s_y[1] < 0
    /\ linreg.s_xy[1] < 0
    /\ linreg.s_x[1] < 0

\* The sums of x and of x * x over x in lo..hi, by adding them up (halving
\* the range keeps the recursion shallow).
RECURSIVE SumOver(_, _)
SumOver(lo, hi) ==
    IF lo > hi THEN 0
    ELSE IF lo = hi THEN lo
    ELSE LET mid == (lo + hi) \div 2
         IN  SumOver(lo, mid) + SumOver(mid + 1, hi)
RECURSIVE SumSquaresOver(_, _)
SumSquaresOver(lo, hi) ==
    IF lo > hi THEN 0
    ELSE IF lo = hi THEN lo * lo
    ELSE LET mid == (lo + hi) \div 2
         IN  SumSquaresOver(lo, mid) + SumSquaresOver(mid + 1, hi)

\* C14: for every accepted length N, the integer computations of LinReg::new
\* give s_x = N(N-1)/2, the sum of x over 0..N-1, and s_x2 = s_x*(2(N-1)+1)/3,
\* the sum of x*x over 0..N-1, both divisions being exact; N*s_x2 - s_x*s_x
\* is positive, and the divider is its finite reciprocal (wherever that
\* integer is within the finite range of the model's ValueType).
RegressionConstants ==
    (method = "LinReg" /\ call.op = "new") =>
        LET n == call.length
            sum_x == SumOver(0, n - 1)
            sum_x2 == SumSquaresOver(0, n - 1)
            den == n * sum_x2 - sum_x * sum_x
        IN  /\ n >= 2
            /\ (n * (n - 1)) % 2 = 0
            /\ LinReg_s_x(n) = sum_x
            /\ (LinReg_s_x(n) * (2 * (n - 1) + 1)) % 3 = 0
            /\ LinReg_s_x2(n) = sum_x2
            /\ LinReg_denominator(n) = den
            /\ den > 0
            /\ linreg.s_x = <<-sum_x, 1>>
            /\ den <= FMax => (linreg.divider = <<1, den>> /\ is_finite(linreg.divider))

\* C14 witness: LinReg::new has succeeded with the longest length, for which
\* 2(N-1)+1 is no multiple of 3.
RegressionConstantsWitness ==
    /\ method = "LinReg"
    /\ call.op = "new"
    /\ call.length = MaxPeriod
    /\ (2 * (call.length - 1) + 1) % 3 # 0
    /\ is_finite(linreg.s_x)

\* 1 when the values are the same, 0 otherwise.
Same(v, w) == IF v = w THEN 1 ELSE 0

\* C15: from a sorted slice, for every old_index (any position of a value
\* equal to the evicted one) and every insert index that keeps the slice
\* sorted, lines 128..139 do not panic and leave a non-decreasing slice that
\* is the old multiset minus one evicted value plus the new value.
TieIndependence ==
    call.op = "shift" =>
        LET old_value == call.slice[call.old_index + 1]
            after == call.result.slice
        IN  /\ call.result.ok
            /\ Len(after) = Len(call.slice)
            /\ IsSorted(after)
            /\ \A v \in FiniteSamples :
                  Count(v, after) =
                      Count(v, call.slice) - Same(v, old_value) + Same(v, call.value)

\* C15 witness: a slice full of one value, the same value inserted at its end
\* while the first position is evicted.
TieIndependenceWitness ==
    /\ call.op = "shift"
    /\ Len(call.slice) >= 3
    /\ \A i \in 1..Len(call.slice) : call.slice[i] = call.value
    /\ call.old_index = 0
    /\ call.found = Len(call.slice)
    /\ call.result.ok

\* C18: on a non-decreasing slice that contains value, find_index returns an
\* index in 0..N-1 at which the slice holds value, also when value occurs
\* several times.
FindIndexLocates ==
    ( /\ call.op = "find_index"
      /\ \E i \in 1..Len(call.slice) : call.slice[i] = call.value ) =>
        /\ call.result \in 0..(Len(call.slice) - 1)
        /\ call.slice[call.result + 1] = call.value

\* C18 witness: the value occurs several times and the index found is not
\* that of its first occurrence.
FindIndexLocatesWitness ==
    /\ call.op = "find_index"
    /\ Len(call.slice) >= 4
    /\ Count(call.value, call.slice) >= 2
    /\ call.result >= 1
    /\ call.slice[call.result] = call.value
    /\ call.slice[call.result + 1] = call.value

\* C19: on a non-decreasing slice of length N, find_insert_index returns an
\* index i in 0..N with every element before i <= value and every element at
\* or after i >= value; i is the number of smaller elements when no element
\* equals value, and is at or after the first equal element otherwise.
FindInsertIndexSorted ==
    call.op = "find_insert_index" =>
        LET i == call.result
            smaller == {j \in 1..Len(call.slice) : FGt(call.value, call.slice[j])}
            equal == {j \in 1..Len(call.slice) : call.slice[j] = call.value}
        IN  /\ i \in 0..Len(call.slice)
            /\ KeepsSorted(call.slice, call.value, i)
            /\ equal = {} => i = Cardinality(smaller)
            /\ equal # {} => \A j \in equal : (\A k \in equal : j <= k) => i >= j - 1

\* C19 witness: the value equals several elements and the index returned is
\* past the first of them.
FindInsertIndexSortedWitness ==
    /\ call.op = "find_insert_index"
    /\ Count(call.value, call.slice) >= 2
    /\ call.result >= 1
    /\ call.slice[call.result] = call.value

\* The indices SMM::next computes for sample value on the sorted slice of s
\* (smm.rs lines 125..129): old_index, the insert index found, and the insert
\* index after its adjustment.
NextIndices(s, value) ==
    LET old_index == find_index(Window_oldest(s.window), s.slice, 0)
        found == find_insert_index(value, s.slice, 0)
    IN  [old_index |-> old_index,
         found |-> found,
         index |-> IF old_index < found THEN found - 1 ELSE found]

\* C16: a SMM::next call leaves every position of the sorted slice below
\* min(old_index, index) or above max(old_index, index) as it was, index
\* being the adjusted insert index; when the two are equal only that position
\* is written.
ShiftFrame ==
    (method = "SMM" /\ fed' # fed) =>
        LET ix == NextIndices(smm, call'.value)
            lo == IF ix.old_index < ix.index THEN ix.old_index ELSE ix.index
            hi == IF ix.old_index < ix.index THEN ix.index ELSE ix.old_index
        IN  /\ Len(smm'.slice) = Len(smm.slice)
            /\ \A i \in 0..(N - 1) :
                  (i < lo \/ i > hi) => smm'.slice[i + 1] = smm.slice[i + 1]
            /\ ix.old_index = ix.index =>
                  smm'.slice = [smm.slice EXCEPT ![ix.index + 1] = call'.value]

ShiftFrameStep == [][ShiftFrame]_vars

\* C16 witness: after a call that evicted a value other than the sample, the
\* slice holds an element outside the span of the two.
ShiftFrameWitness ==
    /\ method = "SMM"
    /\ call.op = "next"
    /\ ~panicked
    /\ Len(fed) >= 1
    /\ N = MaxLen
    /\ evicted # call.value
    /\ \E i \in 1..N :
          \/ FGt(smm.slice[i], evicted) /\ FGt(smm.slice[i], call.value)
          \/ FGt(evicted, smm.slice[i]) /\ FGt(call.value, smm.slice[i])

\* C17: in every reachable state of a tracker, for every finite sample,
\* find_index does not reach an empty sub-slice and answers inside the slice,
\* the insert index is in 0..N and is at least 1 where one is subtracted, the
\* adjusted index is in 0..N-1, the copy_within ranges lie inside the slice,
\* half and half_m1 are in 0..N-1, and next does not panic.
IndexSafety ==
    (method = "SMM" /\ ~panicked) =>
        \A value \in FiniteSamples :
            LET ix == NextIndices(smm, value) IN
            /\ ix.old_index # OOB
            /\ ix.old_index \in 0..(N - 1)
            /\ ix.found \in 0..N
            /\ ix.old_index < ix.found => ix.found >= 1
            /\ ix.index \in 0..(N - 1)
            /\ SMM_shift(smm.slice, ix.old_index, ix.found, value).ok
            /\ smm.half \in 0..(N - 1)
            /\ smm.half_m1 \in 0..(N - 1)
            /\ ~SMM_next(smm, value).panic

\* C17 witness: a call whose sample was greater than every element of the
\* slice, so that find_insert_index answered N, has returned.
IndexSafetyWitness ==
    /\ method = "SMM"
    /\ call.op = "next"
    /\ ~panicked
    /\ Len(fed) >= 2
    /\ N >= 2
    /\ FGt(call.value, evicted)
    /\ \A i \in 1..(N - 1) : FGt(call.value, smm.slice[i])
    /\ smm.slice[N] = call.value

====
